---------------------------- MODULE Spec2Model ----------------------------
(***************************************************************************)
(* Relationship-strength scoring (src/src/scoring/relationship_scorer.py). *)
(*                                                                         *)
(* The store is an SQLite database with the tables accounts, transfers,    *)
(* account_relationships and account_network_metrics.  A RelationshipScorer*)
(* owns one connection to it.  Numbers the scorer computes as floats are   *)
(* modelled as exact rationals <<n, d>> (d > 0, lowest terms); timestamps  *)
(* are minutes since an epoch.                                             *)
(***************************************************************************)
EXTENDS Integers, Sequences, FiniteSets, TLC

VARIABLES
    accounts,                 \* table accounts: address -> row
    transfers,                \* table transfers: set of rows
    account_relationships,    \* table account_relationships: <<from, to>> -> row
    account_network_metrics,  \* table account_network_metrics (committed): address -> row
    conn,                     \* the scorer's connection: state and open transaction
    clock,                    \* wall clock, minutes (UTC)
    call,                     \* a calculate_total_score call in progress
    ret,                      \* outcome of the last finished call
    job,                      \* an update_network_metrics run in progress
    args,                     \* inputs of the aggregation arithmetic
    env                       \* the other writers: how many changes they made

store == <<accounts, transfers, account_relationships, account_network_metrics>>
vars == <<accounts, transfers, account_relationships, account_network_metrics,
          conn, clock, call, ret, job, args, env>>

-----------------------------------------------------------------------------
(* Exact rational arithmetic standing for Python float arithmetic.         *)

RECURSIVE GCD(_, _)
GCD(a, b) == IF b = 0 THEN a ELSE GCD(b, a % b)

Abs(x) == IF x < 0 THEN -x ELSE x

Norm(n, d) ==
    LET g == GCD(Abs(n), Abs(d))
        s == IF d < 0 THEN -1 ELSE 1
    IN  IF n = 0 THEN <<0, 1>> ELSE <<(s * n) \div g, (s * d) \div g>>

Q(n)       == <<n, 1>>
QAdd(x, y) == Norm(x[1] * y[2] + y[1] * x[2], x[2] * y[2])
QSub(x, y) == Norm(x[1] * y[2] - y[1] * x[2], x[2] * y[2])
QMul(x, y) == Norm(x[1] * y[1], x[2] * y[2])
QDiv(x, y) == Norm(x[1] * y[2], x[2] * y[1])
QLe(x, y)  == x[1] * y[2] <= y[1] * x[2]
QLt(x, y)  == x[1] * y[2] < y[1] * x[2]
QMin(x, y) == IF QLe(x, y) THEN x ELSE y
QMax(x, y) == IF QLe(x, y) THEN y ELSE x
InRange(x, lo, hi) == QLe(Q(lo), x) /\ QLe(x, Q(hi))

\* Python round(x, 2) for x >= 0: nearest multiple of 1/100, ties to even.
Round2(x) ==
    LET s == 100 * x[1]
        q == s \div x[2]
        r == s % x[2]
    IN  IF 2 * r < x[2] THEN Norm(q, 100)
        ELSE IF 2 * r > x[2] THEN Norm(q + 1, 100)
        ELSE IF q % 2 = 0 THEN Norm(q, 100) ELSE Norm(q + 1, 100)

-----------------------------------------------------------------------------
(* calculate_total_score, lines 394-411: weights, base score, risk penalty. *)

\* The weights with the network weight given to every component.
weights_all_network == [volume |-> <<30, 100>>, frequency |-> <<30, 100>>,
                        temporal |-> <<30, 100>>, network |-> <<30, 100>>]

weights == [volume |-> <<25, 100>>, frequency |-> <<25, 100>>,
            temporal |-> <<20, 100>>, network |-> <<30, 100>>]

base_score(v, f, t, n) ==
    QAdd(QAdd(QAdd(QMul(v, weights.volume), QMul(f, weights.frequency)),
              QMul(t, weights.temporal)),
         QMul(n, weights.network))

\* The penalty applied as a bonus.
risk_multiplier_bonus(risk_score) == QAdd(Q(1), QDiv(risk_score, Q(200)))

risk_multiplier(risk_score) == QSub(Q(1), QDiv(risk_score, Q(200)))

total_score(base, mult) == Round2(QMul(base, mult))

\* The record calculate_total_score builds from the five sub-scores.
Aggregate(v, f, t, n, r) ==
    LET base == base_score(v, f, t, n)
        mult == risk_multiplier(r)
    IN  [volume_score |-> v, frequency_score |-> f, temporal_score |-> t,
         network_score |-> n, risk_score |-> r,
         total_score |-> total_score(base, mult),
         base_score |-> base, risk_multiplier |-> mult]

-----------------------------------------------------------------------------
(* Store rows.                                                             *)
(*   accounts[a]               = [balance, created_at]                     *)
(*   transfers                 : set of [id, from_address, to_address,     *)
(*                                       value, timestamp]                 *)
(*   account_relationships[k]  = [total_volume, transfer_count, created_at,*)
(*                                total_score, volume_score, risk_score]   *)
(* Amounts are counted in units of 5 * 10^11 smallest units, so that       *)
(* 10^12 smallest units are OneDot = 2 model units.  Timestamps are ISO   *)
(* strings of one format, modelled as minutes.  A transfer record with a   *)
(* field "malformed" holds a timestamp text that is a well-formed one      *)
(* followed by characters no date parser accepts: it sorts, as text, right *)
(* after the well-formed timestamp it begins with.                         *)

Day == 1440
Hour == 60
Max(a, b) == IF a >= b THEN a ELSE b
Min(a, b) == IF a <= b THEN a ELSE b
MinOf(S) == CHOOSE x \in S : \A y \in S : x <= y
MaxOf(S) == CHOOSE x \in S : \A y \in S : x >= y

\* datetime.now() is local time; SQLite's datetime('now') is UTC.
PyNow(clk)  == clk.utc + clk.tz
SqlNow(clk) == clk.utc

\* What a scorer returns: (score, details); details {} is the empty record.
NoDetails == <<>>
Returned(score, details) == [err |-> "", score |-> score, details |-> details]
Raised(e) == [err |-> e]
IsEmptyResult(r) == r.err = "" /\ r.score = Q(0) /\ DOMAIN r.details = {}

-----------------------------------------------------------------------------
(* calculate_volume_score, lines 42-106.                                   *)

\* float(..) (lines 63, 65) and CAST(.. AS REAL) (lines 74-75) give the
\* nearest binary floating-point number, ties to the even mantissa.  The
\* mantissa is scaled down to MantissaBits bits.
MantissaBits == 2

RECURSIVE Ulp(_)
Ulp(v) == IF v < 2 ^ MantissaBits THEN 1 ELSE 2 * Ulp(v \div 2)

ToReal(v) ==
    LET u == Ulp(v)
        q == v \div u
        r == v % u
    IN  IF 2 * r < u THEN q * u
        ELSE IF 2 * r > u THEN (q + 1) * u
        ELSE IF q % 2 = 0 THEN q * u ELSE (q + 1) * u

\* The rank counting the rows above instead of the rows below.
volume_rank_above(rels, total_volume) ==
    Cardinality({k \in DOMAIN rels : ToReal(rels[k].total_volume) > total_volume})

\* The rank counting the rows at or below the subject's.
volume_rank_inclusive(rels, total_volume) ==
    Cardinality({k \in DOMAIN rels : ToReal(rels[k].total_volume) <= total_volume})

\* Line 74: rows whose total_volume is strictly below the subject's.
volume_rank(rels, total_volume) ==
    Cardinality({k \in DOMAIN rels : ToReal(rels[k].total_volume) < total_volume})

\* Line 75: total_volume / NULLIF(transfer_count, 0) < ?; a row with
\* transfer_count = 0 gives NULL and is not counted.
avg_size_rank(rels, avg_transfer_size) ==
    Cardinality({k \in DOMAIN rels :
        /\ rels[k].transfer_count # 0
        /\ QLt(Norm(ToReal(rels[k].total_volume), rels[k].transfer_count),
               avg_transfer_size)})

\* Line 80.
total_relationships(rels) == Max(Cardinality(DOMAIN rels), 1)

volume_component(rels, total_volume) ==
    QMin(Q(40), QMul(Norm(volume_rank(rels, total_volume), total_relationships(rels)),
                     Q(40)))

avg_size_component(rels, avg_transfer_size) ==
    QMin(Q(30), QMul(Norm(avg_size_rank(rels, avg_transfer_size),
                          total_relationships(rels)), Q(30)))

\* The component without its cap.
relative_volume_component_uncapped(total_volume, sender_balance) ==
    IF sender_balance > 0
    THEN QMul(Norm(total_volume, sender_balance), Q(100))
    ELSE Q(15)

\* Lines 89-92.
relative_volume_component(total_volume, sender_balance) ==
    IF sender_balance > 0
    THEN QMin(Q(30), QMul(Norm(total_volume, sender_balance), Q(100)))
    ELSE Q(15)

calculate_volume_score(rels, accts, from_addr, to_addr) ==
    IF <<from_addr, to_addr>> \notin DOMAIN rels THEN Returned(Q(0), NoDetails)
    ELSE
    LET row == rels[<<from_addr, to_addr>>]
        total_volume == ToReal(row.total_volume)
        transfer_count == row.transfer_count
        sender_balance == IF from_addr \in DOMAIN accts
                          THEN ToReal(accts[from_addr].balance) ELSE 0
        avg_transfer_size == Norm(total_volume, Max(transfer_count, 1))
        vc == volume_component(rels, total_volume)
        ac == avg_size_component(rels, avg_transfer_size)
        rc == relative_volume_component(total_volume, sender_balance)
        total == QAdd(QAdd(vc, ac), rc)
    IN  Returned(QMin(Q(100), total),
            [total_volume |-> Q(total_volume),
             avg_transfer_size |-> avg_transfer_size,
             volume_percentile |-> Norm(volume_rank(rels, total_volume),
                                        total_relationships(rels)),
             avg_size_percentile |-> Norm(avg_size_rank(rels, avg_transfer_size),
                                          total_relationships(rels)),
             volume_component |-> vc,
             avg_size_component |-> ac,
             relative_volume_component |-> rc])

-----------------------------------------------------------------------------
(* calculate_frequency_score, lines 108-172.                               *)

\* The transfers joined to the relationship row of the pair (lines 119-121).
PairTransfers(trs, from_addr, to_addr) ==
    {t \in trs : t.from_address = from_addr /\ t.to_address = to_addr}

\* datetime.fromisoformat (lines 130-131, 196-197) raises ValueError on the
\* text of such a transfer; SQLite's DATE, datetime, julianday and strftime
\* (lines 118, 184-185, 319, 344) give NULL for it.
WellFormed(t) == "malformed" \notin DOMAIN t
WellFormedOf(T) == {t \in T : WellFormed(t)}

\* MIN(t.timestamp) and MAX(t.timestamp) compare the column as text.
TextKey(t) == 2 * t.timestamp + (IF WellFormed(t) THEN 0 ELSE 1)
FirstOf(T) == CHOOSE t \in T : TextKey(t) = MinOf({TextKey(u) : u \in T})
LastOf(T) == CHOOSE t \in T : TextKey(t) = MaxOf({TextKey(u) : u \in T})

\* timedelta.days: whole days, rounded towards minus infinity.
DeltaDays(later, earlier) == (later - earlier) \div Day

\* Line 142.
count_rank(rels, transfer_count) ==
    Cardinality({k \in DOMAIN rels : rels[k].transfer_count < transfer_count})

calculate_frequency_score(rels, trs, from_addr, to_addr) ==
    LET T == PairTransfers(trs, from_addr, to_addr) IN
    IF <<from_addr, to_addr>> \notin DOMAIN rels \/ T = {}
    THEN Returned(Q(0), NoDetails)
    ELSE IF rels[<<from_addr, to_addr>>].transfer_count = 0
    THEN Returned(Q(0), NoDetails)
    ELSE IF ~WellFormed(FirstOf(T)) \/ ~WellFormed(LastOf(T))
    THEN Raised("ValueError")
    ELSE
    LET transfer_count == rels[<<from_addr, to_addr>>].transfer_count
        first_transfer == FirstOf(T).timestamp
        last_transfer == LastOf(T).timestamp
        unique_days ==
            Cardinality({t.timestamp \div Day : t \in WellFormedOf(T)})
        days_active == Max(DeltaDays(last_transfer, first_transfer) + 1, 1)
        transfers_per_day == Norm(transfer_count, days_active)
        count_percentile == Norm(count_rank(rels, transfer_count),
                                 total_relationships(rels))
        frequency_percentile == QMin(Q(1), QDiv(transfers_per_day, Q(10)))
        count_component == QMin(Q(40), QMul(count_percentile, Q(40)))
        frequency_component == QMin(Q(30), QMul(frequency_percentile, Q(30)))
        consistency_component ==
            QMin(Q(30), QMul(Norm(unique_days, days_active), Q(30)))
        total == QAdd(QAdd(count_component, frequency_component),
                      consistency_component)
    IN  Returned(QMin(Q(100), total),
            [transfer_count |-> transfer_count,
             days_active |-> days_active,
             transfers_per_day |-> transfers_per_day,
             unique_days |-> unique_days,
             count_percentile |-> count_percentile,
             frequency_percentile |-> frequency_percentile,
             count_component |-> count_component,
             frequency_component |-> frequency_component,
             consistency_component |-> consistency_component])

-----------------------------------------------------------------------------
(* calculate_temporal_score, lines 174-238.                                *)

\* The same chain with the one-week test ahead of the one-day test.
recency_component_week_first(days_since_last) ==
    IF days_since_last <= 7 THEN 35
    ELSE IF days_since_last <= 1 THEN 40
    ELSE IF days_since_last <= 30 THEN 25
    ELSE IF days_since_last <= 90 THEN 15
    ELSE IF days_since_last <= 365 THEN 5
    ELSE 0

\* Lines 202-213.
recency_component(days_since_last) ==
    IF days_since_last <= 1 THEN 40
    ELSE IF days_since_last <= 7 THEN 35
    ELSE IF days_since_last <= 30 THEN 25
    ELSE IF days_since_last <= 90 THEN 15
    ELSE IF days_since_last <= 365 THEN 5
    ELSE 0

calculate_temporal_score(rels, trs, clk, from_addr, to_addr) ==
    LET T == PairTransfers(trs, from_addr, to_addr) IN
    IF <<from_addr, to_addr>> \notin DOMAIN rels \/ T = {}
    THEN Returned(Q(0), NoDetails)
    ELSE IF ~WellFormed(LastOf(T)) \/ ~WellFormed(FirstOf(T))
    THEN Raised("ValueError")
    ELSE
    LET transfer_count == rels[<<from_addr, to_addr>>].transfer_count
        first_transfer == FirstOf(T).timestamp
        last_transfer == LastOf(T).timestamp
        transfers_last_week ==
            Cardinality({t \in WellFormedOf(T) :
                            t.timestamp >= SqlNow(clk) - 7 * Day})
        transfers_last_month ==
            Cardinality({t \in WellFormedOf(T) :
                            t.timestamp >= SqlNow(clk) - 30 * Day})
        days_since_last == DeltaDays(PyNow(clk), last_transfer)
        relationship_days == DeltaDays(last_transfer, first_transfer) + 1
        recency == Q(recency_component(days_since_last))
        duration_component ==
            QMin(Q(30), QMul(Norm(relationship_days, 365), Q(30)))
        activity_component ==
            IF transfer_count > 0
            THEN QMin(Q(30),
                      QAdd(QMul(Norm(transfers_last_week, transfer_count), Q(15)),
                           QMul(Norm(transfers_last_month, transfer_count), Q(15))))
            ELSE Q(0)
        total == QAdd(QAdd(recency, duration_component), activity_component)
    IN  Returned(total,
            [days_since_last |-> days_since_last,
             relationship_days |-> relationship_days,
             transfers_last_week |-> transfers_last_week,
             transfers_last_month |-> transfers_last_month,
             recency_component |-> recency,
             duration_component |-> duration_component,
             activity_component |-> activity_component])

-----------------------------------------------------------------------------
(* calculate_network_score, lines 240-293.                                 *)

\* Lines 245-256: COUNT(DISTINCT CASE ...) over the pairs (r1, r2) of
\* relationship rows with r1.from_address = A and r2.to_address = B.
\* The distinct values of the CASE expression.
counted_connections(rels, from_addr, to_addr) ==
    {IF r[1][2] = r[2][1] THEN r[1][2] ELSE r[1][1] :
        r \in {p \in (DOMAIN rels) \X (DOMAIN rels) :
                 /\ p[1][1] = from_addr
                 /\ p[2][2] = to_addr
                 /\ (p[1][2] = p[2][1] \/ p[1][1] = p[2][2])}}

common_connections(rels, from_addr, to_addr) ==
    Cardinality(counted_connections(rels, from_addr, to_addr))

\* Lines 259-268: the statement text is
\*   ... FROM (SELECT ?) as f LEFT JOIN account_network_metrics nm1
\*       ON f.? = nm1.address LEFT JOIN ... ON ? = nm2.address
\* A bound parameter cannot stand for a column name: SQLite rejects "f.?"
\* when it prepares the statement (sqlite3.OperationalError: near "?": syntax
\* error), for every argument and every content of the store.
metrics_lookup(metrics, from_addr, to_addr) == Raised("OperationalError")

\* The common-connections query runs first; the metrics statement then
\* raises, so lines 270-293 are never reached and no score is returned.
calculate_network_score(rels, metrics, from_addr, to_addr) ==
    LET common == common_connections(rels, from_addr, to_addr)
    IN  metrics_lookup(metrics, from_addr, to_addr)

-----------------------------------------------------------------------------
(* calculate_risk_score, lines 295-382.                                    *)

OneDot == 2
RapidMinutes == 5

\* Lines 313-322.
rapid_count(trs, from_addr, to_addr) ==
    Cardinality({p \in trs \X trs :
        /\ p[1].to_address = p[2].from_address
        /\ p[1].from_address = from_addr
        /\ p[2].to_address = to_addr
        /\ WellFormed(p[1]) /\ WellFormed(p[2])
        /\ Abs(p[2].timestamp - p[1].timestamp) < RapidMinutes})

\* Line 365.
round_number_risk(round_numbers, transfer_count) ==
    QMin(Q(25), QMul(Norm(round_numbers, Max(transfer_count, 1)), Q(50)))

\* Lines 325-336: CAST(value AS REAL) % 10^12 = 0 OR .. % 10^13 = 0 OR
\* .. % 10^14 = 0.
round_count(trs, from_addr, to_addr) ==
    Cardinality({t \in PairTransfers(trs, from_addr, to_addr) :
        \/ ToReal(t.value) % OneDot = 0
        \/ ToReal(t.value) % (10 * OneDot) = 0
        \/ ToReal(t.value) % (100 * OneDot) = 0})

\* Lines 339-346: strftime('%H', timestamp) BETWEEN 2 AND 5.
unusual_count(trs, from_addr, to_addr) ==
    Cardinality({t \in WellFormedOf(PairTransfers(trs, from_addr, to_addr)) :
        (t.timestamp % Day) \div Hour \in 2..5})

\* Lines 349-361.
new_account_flag(rels, accts, from_addr, to_addr) ==
    IF to_addr \in DOMAIN accts
    THEN IF DeltaDays(rels[<<from_addr, to_addr>>].created_at,
                      accts[to_addr].created_at) < 7
         THEN 1 ELSE 0
    ELSE 0

calculate_risk_score(rels, accts, trs, from_addr, to_addr) ==
    IF <<from_addr, to_addr>> \notin DOMAIN rels THEN Returned(Q(0), NoDetails)
    ELSE
    LET transfer_count == rels[<<from_addr, to_addr>>].transfer_count
        rapid_transfers == rapid_count(trs, from_addr, to_addr)
        round_numbers == round_count(trs, from_addr, to_addr)
        unusual_time == unusual_count(trs, from_addr, to_addr)
        flag == new_account_flag(rels, accts, from_addr, to_addr)
        denom == Max(transfer_count, 1)
        rapid_transfer_risk ==
            QMin(Q(30), QMul(Norm(rapid_transfers, denom), Q(100)))
        round_risk ==
            round_number_risk(round_numbers, transfer_count)
        time_anomaly_risk ==
            QMin(Q(25), QMul(Norm(unusual_time, denom), Q(50)))
        new_account_risk == Q(flag * 20)
        total_risk == QAdd(QAdd(rapid_transfer_risk, round_risk),
                           QAdd(time_anomaly_risk, new_account_risk))
    IN  Returned(QMin(Q(100), total_risk),
            [rapid_transfers |-> rapid_transfers,
             round_numbers |-> round_numbers,
             unusual_time_transfers |-> unusual_time,
             new_account_interaction |-> (flag = 1),
             rapid_transfer_risk |-> rapid_transfer_risk,
             round_number_risk |-> round_risk,
             time_anomaly_risk |-> time_anomaly_risk,
             new_account_risk |-> new_account_risk])

-----------------------------------------------------------------------------
(* Values the processes start from.                                        *)

MaxAddr == 3
Addr == 1..MaxAddr
\* A score column that was never written, and a sub-score not yet computed.
NullScore == <<>>
Pending == [err |-> "pending"]

Idle == [pc |-> "idle"]
NoRet == [op |-> "none"]
NoPrev == [op |-> "none"]
NoJob == [pc |-> "idle", runs |-> 0, failed |-> {},
          last |-> [run |-> 0, nodes |-> {}]]
ConnOpen == [state |-> "open", tx |-> <<>>]

\* A relationship row as the ingestion pipeline creates it; the persisted
\* score columns are written by no code of this repository.
RelRow(volume, count, created) ==
    [total_volume |-> volume, transfer_count |-> count, created_at |-> created,
     total_score |-> NullScore, volume_score |-> NullScore,
     risk_score |-> NullScore]

-----------------------------------------------------------------------------
(* update_network_metrics, lines 437-497.                                  *)
(*                                                                         *)
(* The connection is opened with sqlite3's defaults (line 33): the first   *)
(* INSERT OR REPLACE opens a transaction implicitly, every upsert of the   *)
(* loop goes into it, and only conn.commit() (line 497) publishes it.      *)
(* conn.tx holds the rows written and not yet committed; they are visible  *)
(* to statements on this connection and to no other connection.  While     *)
(* the transaction is open the database's write lock is held.              *)
(*                                                                         *)
(* A metrics row is [run, degree_centrality, common_neighbors_avg]: run     *)
(* numbers the update_network_metrics call that wrote it (the row's        *)
(* updated_at).  The other columns (betweenness, closeness, clustering,    *)
(* pagerank) are values networkx derives from the same graph; no statement *)
(* of the scorer reads them back.                                          *)

\* Lines 442-456: one edge per relationship row.
BuildGraph(rels) ==
    [k \in DOMAIN rels |-> [weight |-> rels[k].total_volume,
                            transfers |-> rels[k].transfer_count]]

Nodes(G) == {k[1] : k \in DOMAIN G} \cup {k[2] : k \in DOMAIN G}

\* networkx.degree_centrality: in-degree + out-degree over (n - 1); 1 for
\* every node of a graph with at most one node.
degree_centrality(G, node) ==
    LET n == Cardinality(Nodes(G))
        d == Cardinality({k \in DOMAIN G : k[1] = node})
             + Cardinality({k \in DOMAIN G : k[2] = node})
    IN  IF n <= 1 THEN Q(1) ELSE Norm(d, n - 1)

\* Line 471: successors and predecessors.
Neighbors(G, node) ==
    {k[2] : k \in {e \in DOMAIN G : e[1] = node}}
    \cup {k[1] : k \in {e \in DOMAIN G : e[2] = node}}

RECURSIVE SumOver(_, _, _)
SumOver(G, node, S) ==
    IF S = {} THEN 0
    ELSE LET u == CHOOSE x \in S : TRUE
         IN  Cardinality(Neighbors(G, node) \cap Neighbors(G, u))
             + SumOver(G, node, S \ {u})

\* The sum of the counts over the number of nodes of the graph.
common_neighbors_avg_over_nodes(G, node) ==
    LET neighbors == Neighbors(G, node)
    IN  IF neighbors = {} THEN Q(0)
        ELSE Norm(SumOver(G, node, neighbors), Cardinality(Nodes(G)))

\* Lines 470-479.
common_neighbors_avg(G, node) ==
    LET neighbors == Neighbors(G, node)
    IN  IF neighbors = {} THEN Q(0)
        ELSE Norm(SumOver(G, node, neighbors), Cardinality(neighbors))

\* A row whose values depend on how many runs went before.
MetricsRowDrifting(G, node, run) ==
    [run |-> run,
     degree_centrality |-> QMul(degree_centrality(G, node), Norm(1, run)),
     common_neighbors_avg |-> common_neighbors_avg(G, node)]

\* Lines 482-495: the values of one INSERT OR REPLACE; run stands for
\* updated_at.
MetricsRow(G, node, run) ==
    [run |-> run,
     degree_centrality |-> degree_centrality(G, node),
     common_neighbors_avg |-> common_neighbors_avg(G, node)]

\* f with the rows of g written over it (INSERT OR REPLACE, commit).
Overlay(f, g) ==
    [x \in DOMAIN f \cup DOMAIN g |-> IF x \in DOMAIN g THEN g[x] ELSE f[x]]

\* account_network_metrics as statements on the scorer's connection see it.
ConnView == Overlay(account_network_metrics, conn.tx)

MaxRuns == 2

\* Lines 439-466: read every relationship row, build the graph, compute.
StartRun ==
    /\ conn.state = "open"
    /\ job.pc = "idle"
    /\ job.runs < MaxRuns
    /\ job' = [pc |-> "loop", runs |-> job.runs + 1, failed |-> job.failed,
               graph |-> BuildGraph(account_relationships),
               todo |-> Nodes(BuildGraph(account_relationships)),
               last |-> job.last]
    /\ UNCHANGED <<store, conn, clock, call, ret, args, env>>

\* UpsertRow as it would be on a connection in autocommit mode
\* (isolation_level=None): every INSERT OR REPLACE is published at once.
UpsertRowAutocommit ==
    /\ job.pc = "loop"
    /\ \E node \in job.todo :
        /\ account_network_metrics' =
             Overlay(account_network_metrics,
                     [x \in {node} |-> MetricsRow(job.graph, node, job.runs)])
        /\ conn' = [conn EXCEPT !.tx =
                      Overlay(conn.tx,
                              [x \in {node} |-> MetricsRow(job.graph, node, job.runs)])]
        /\ job' = [job EXCEPT !.todo = job.todo \ {node}]
    /\ UNCHANGED <<accounts, transfers, account_relationships,
                   clock, call, ret, args, env>>

\* Lines 469-495: one pass of the loop, one INSERT OR REPLACE.
UpsertRow ==
    /\ job.pc = "loop"
    /\ \E node \in job.todo :
        /\ conn' = [conn EXCEPT !.tx =
                      Overlay(conn.tx,
                              [x \in {node} |-> MetricsRow(job.graph, node, job.runs)])]
        /\ job' = [job EXCEPT !.todo = job.todo \ {node}]
    /\ UNCHANGED <<store, clock, call, ret, args, env>>

\* Line 497: conn.commit().
CommitRun ==
    /\ job.pc = "loop"
    /\ job.todo = {}
    /\ account_network_metrics' = Overlay(account_network_metrics, conn.tx)
    /\ conn' = [conn EXCEPT !.tx = <<>>]
    /\ job' = [pc |-> "idle", runs |-> job.runs, failed |-> job.failed,
               last |-> [run |-> job.runs, nodes |-> Nodes(job.graph)]]
    /\ UNCHANGED <<accounts, transfers, account_relationships, clock, call, ret, args, env>>

\* An exception leaves update_network_metrics inside the loop (a failing
\* statement, an interrupt): the method has no handler and no rollback, so
\* the transaction stays open on the connection.
FailRun ==
    /\ job.pc = "loop"
    /\ job.todo # {}
    /\ job' = [pc |-> "idle", runs |-> job.runs,
               failed |-> job.failed \cup {job.runs}, last |-> job.last]
    /\ UNCHANGED <<store, conn, clock, call, ret, args, env>>

\* __exit__, lines 39-40: conn.close() discards an open transaction.
Exit ==
    /\ conn.state = "open"
    /\ job.pc = "idle"
    /\ call.pc = "idle"
    /\ conn' = [state |-> "closed", tx |-> <<>>]
    /\ UNCHANGED <<store, clock, call, ret, job, args, env>>

\* __init__, lines 31-34: a new scorer on the same database.
Connect ==
    /\ conn.state = "closed"
    /\ conn' = [state |-> "open", tx |-> <<>>]
    /\ UNCHANGED <<store, clock, call, ret, job, args, env>>

-----------------------------------------------------------------------------
(* Other writers of the store.  The ingestion pipeline is outside this     *)
(* repository; it commits on its own connection, which it can do only      *)
(* while no other connection holds the write lock.                         *)

MaxRels == 2
MaxVolume == 2

\* The pairs the ingestion pipeline writes in the Centrality Engine runs.
IngestKeys == {k \in Addr \X Addr : k[1] < k[2]}

MaxChanges == 2
NoEnv == [changes |-> 0]

WriteLockFree == conn.tx = <<>>

\* A relationship row is created, or its aggregates are updated.
IngestRelationship ==
    /\ WriteLockFree
    /\ env.changes < MaxChanges
    /\ \E k \in IngestKeys, v \in 1..MaxVolume :
        /\ k \in DOMAIN account_relationships
             => account_relationships[k].total_volume # v
        /\ k \notin DOMAIN account_relationships
             => Cardinality(DOMAIN account_relationships) < MaxRels
        /\ account_relationships' =
             Overlay(account_relationships, [x \in {k} |-> RelRow(v, 1, 0)])
    /\ env' = [env EXCEPT !.changes = env.changes + 1]
    /\ UNCHANGED <<accounts, transfers, account_network_metrics,
                   conn, clock, call, ret, job, args>>

\* A relationship row is deleted (pruning, re-import).
RemoveRelationship ==
    /\ WriteLockFree
    /\ env.changes < MaxChanges
    /\ \E k \in DOMAIN account_relationships :
        account_relationships' =
            [x \in DOMAIN account_relationships \ {k} |-> account_relationships[x]]
    /\ env' = [env EXCEPT !.changes = env.changes + 1]
    /\ UNCHANGED <<accounts, transfers, account_network_metrics,
                   conn, clock, call, ret, job, args>>

-----------------------------------------------------------------------------
(* The Centrality Engine against a changing relationship table.            *)

InitMetrics ==
    /\ accounts = <<>> /\ transfers = {} /\ account_relationships = <<>>
    /\ account_network_metrics = <<>>
    /\ conn = ConnOpen /\ clock = [utc |-> 0, tz |-> 0]
    /\ call = Idle /\ job = NoJob /\ ret = NoRet /\ args = <<>> /\ env = NoEnv

NextMetrics ==
    \/ StartRun \/ UpsertRow \/ CommitRun \/ FailRun
    \/ Exit \/ Connect
    \/ IngestRelationship \/ RemoveRelationship

SpecMetrics == InitMetrics /\ [][NextMetrics]_vars

\* Rows of run r next to rows of an earlier run.
Mixed(view, r) ==
    \E x, y \in DOMAIN view : view[x].run = r /\ view[y].run < r

RunInProgress == job.pc = "loop" /\ conn.tx # <<>>

(* C4: while update_network_metrics is between its first upsert and its    *)
(* commit, no reader sees account_network_metrics with rows of the run in  *)
(* progress next to rows of the previous run.  A reader on another         *)
(* connection sees the committed table.  The scorer object is synchronous  *)
(* and its connection refuses other threads (check_same_thread), so no     *)
(* statement of the same object runs before update_network_metrics         *)
(* returns.                                                                *)
C4_NoMixedRead ==
    RunInProgress => ~Mixed(account_network_metrics, job.runs)

C4_Witness ==
    /\ RunInProgress
    /\ job.todo # {}
    /\ account_network_metrics # <<>>
    /\ Mixed(ConnView, job.runs)

(* C5: after a failed update_network_metrics, every read, also on the      *)
(* scorer's own connection, returns the previous snapshot, and no row the  *)
(* failed run wrote is ever committed.                                     *)
C5_FailedRunLeavesSnapshot ==
    /\ \A x \in DOMAIN account_network_metrics :
           account_network_metrics[x].run \notin job.failed
    /\ (job.pc = "idle" /\ conn.state = "open") =>
           \A x \in DOMAIN ConnView : ConnView[x].run \notin job.failed

-----------------------------------------------------------------------------
(* The Centrality Engine run again on an unchanged relationship table.     *)

RerunTables ==
    UNION {[S -> {RelRow(v, 1, 0) : v \in 1..MaxVolume}] : S \in SUBSET IngestKeys}

\* A row an earlier run left for an account.
EarlierRow == [run |-> 0, degree_centrality |-> Q(1), common_neighbors_avg |-> Q(0)]

InitRerun ==
    /\ accounts = <<>> /\ transfers = {}
    /\ account_relationships \in RerunTables
    /\ account_network_metrics \in {<<>>, [x \in {MaxAddr} |-> EarlierRow]}
    /\ conn = ConnOpen /\ clock = [utc |-> 0, tz |-> 0]
    /\ call = Idle /\ job = NoJob /\ ret = NoRet /\ args = <<>> /\ env = NoEnv

\* Every field of every row except updated_at.
MetricValues(table) ==
    [x \in DOMAIN table |->
        [degree_centrality |-> table[x].degree_centrality,
         common_neighbors_avg |-> table[x].common_neighbors_avg]]

\* A reader on another connection selects the whole table after a run, and
\* keeps what it read after the run before.
ReadMetrics ==
    /\ job.pc = "idle"
    /\ job.last.run > 0
    /\ ret.op = "read_metrics" => ret.run < job.last.run
    /\ ret' = [op |-> "read_metrics", run |-> job.last.run,
               table |-> MetricValues(account_network_metrics),
               prev |-> IF ret.op = "read_metrics"
                        THEN [op |-> ret.op, run |-> ret.run, table |-> ret.table]
                        ELSE NoPrev]
    /\ UNCHANGED <<store, conn, clock, call, job, args, env>>

NextRerun == StartRun \/ UpsertRow \/ CommitRun \/ ReadMetrics

SpecRerun == InitRerun /\ [][NextRerun]_vars

ReadAfterBothRuns ==
    /\ ret.op = "read_metrics"
    /\ ret.prev.op = "read_metrics"
    /\ ret.run = ret.prev.run + 1

Intermediaries(rels, a, b) ==
    {x \in Addr :
        \/ <<a, x>> \in DOMAIN rels /\ <<x, b>> \in DOMAIN rels
        \/ <<x, a>> \in DOMAIN rels /\ <<b, x>> \in DOMAIN rels}

(* C20: for every relationship graph and every pair A # B, the             *)
(* common-connections count of the network scorer (lines 245-256) is the   *)
(* number of distinct accounts X with A -> X and X -> B, or with X -> A    *)
(* and B -> X.                                                             *)
C20_CommonConnections ==
    \A a, b \in Addr :
        a # b => common_connections(account_relationships, a, b)
                   = Cardinality(Intermediaries(account_relationships, a, b))

-----------------------------------------------------------------------------
(* The scorer's public methods as operations on the store.                 *)
(*                                                                         *)
(* ret records the outcome of the last finished call.  What a component   *)
(* scorer returned describes the store and the time it was computed at,    *)
(* and is dropped from ret when either moves on.                           *)

\* What the caller of a finished call holds: the call, what it returned or
\* raised, the temporal sub-score it computed on the way, whether the row of
\* the pair exists, whether the store stayed as it was during the call
\* (quiet), and, for calculate_total_score, the same facts about the call
\* before it when that was the same call on the store as it still is.
Outcome(op, from_addr, to_addr, result, began, temporal) ==
    [op |-> op, from |-> from_addr, to |-> to_addr, result |-> result,
     had_row |-> <<from_addr, to_addr>> \in DOMAIN account_relationships,
     quiet |-> began = env.changes,
     temporal |-> temporal,
     prev |-> IF op = "calculate_total_score" /\ ret.op = op
                 /\ ret.from = from_addr /\ ret.to = to_addr
              THEN [op |-> ret.op, result |-> ret.result, quiet |-> ret.quiet,
                    temporal |-> ret.temporal]
              ELSE NoPrev]

Kept(r) == IF r.op \in {"calculate_total_score", "export_scores_to_json"}
           THEN r ELSE NoRet

CanCall == conn.state = "open" /\ call.pc = "idle" /\ job.pc = "idle"

\* calculate_volume_score with the computed score written back to the
\* relationship row.
CallVolumeWriteBack(from_addr, to_addr) ==
    LET r == calculate_volume_score(account_relationships, accounts,
                                    from_addr, to_addr)
        k == <<from_addr, to_addr>>
    IN  /\ CanCall
        /\ ret' = Outcome("calculate_volume_score", from_addr, to_addr, r,
                          env.changes, Pending)
        /\ account_relationships' =
             IF k \in DOMAIN account_relationships
             THEN [account_relationships EXCEPT ![k].volume_score = r.score]
             ELSE account_relationships
        /\ UNCHANGED <<accounts, transfers, account_network_metrics,
                       conn, clock, call, job, args, env>>

CallVolume(from_addr, to_addr) ==
    /\ CanCall
    /\ ret' = Outcome("calculate_volume_score", from_addr, to_addr,
                      calculate_volume_score(account_relationships, accounts,
                                             from_addr, to_addr),
                      env.changes, Pending)
    /\ UNCHANGED <<store, conn, clock, call, job, args, env>>

CallFrequency(from_addr, to_addr) ==
    /\ CanCall
    /\ ret' = Outcome("calculate_frequency_score", from_addr, to_addr,
                      calculate_frequency_score(account_relationships, transfers,
                                                from_addr, to_addr),
                      env.changes, Pending)
    /\ UNCHANGED <<store, conn, clock, call, job, args, env>>

CallTemporal(from_addr, to_addr) ==
    /\ CanCall
    /\ ret' = Outcome("calculate_temporal_score", from_addr, to_addr,
                      calculate_temporal_score(account_relationships, transfers,
                                               clock, from_addr, to_addr),
                      env.changes, Pending)
    /\ UNCHANGED <<store, conn, clock, call, job, args, env>>

CallNetwork(from_addr, to_addr) ==
    /\ CanCall
    /\ ret' = Outcome("calculate_network_score", from_addr, to_addr,
                      calculate_network_score(account_relationships, ConnView,
                                              from_addr, to_addr),
                      env.changes, Pending)
    /\ UNCHANGED <<store, conn, clock, call, job, args, env>>

CallRisk(from_addr, to_addr) ==
    /\ CanCall
    /\ ret' = Outcome("calculate_risk_score", from_addr, to_addr,
                      calculate_risk_score(account_relationships, accounts,
                                           transfers, from_addr, to_addr),
                      env.changes, Pending)
    /\ UNCHANGED <<store, conn, clock, call, job, args, env>>

(* calculate_total_score, lines 384-435, one step per component scorer    *)
(* (each is a group of statements on the connection; other connections    *)
(* may commit in between).  export_scores_to_json, lines 538-561, starts  *)
(* with the same call.                                                     *)

BeginTotal(from_addr, to_addr, export) ==
    /\ CanCall
    /\ call' = [pc |-> "volume", from |-> from_addr, to |-> to_addr,
                export |-> export, began |-> env.changes,
                volume |-> Pending, frequency |-> Pending, temporal |-> Pending]
    /\ UNCHANGED <<store, conn, clock, ret, job, args, env>>

\* Line 388.
TotalVolume ==
    /\ call.pc = "volume"
    /\ call' = [call EXCEPT !.pc = "frequency",
                   !.volume = calculate_volume_score(account_relationships,
                                  accounts, call.from, call.to)]
    /\ UNCHANGED <<store, conn, clock, ret, job, args, env>>

\* An exception of a component scorer is not caught: it leaves
\* calculate_total_score (and export_scores_to_json before it writes).
TotalOp == IF call.export THEN "export_scores_to_json"
           ELSE "calculate_total_score"

\* Line 389.
TotalFrequency ==
    /\ call.pc = "frequency"
    /\ LET f == calculate_frequency_score(account_relationships, transfers,
                                          call.from, call.to)
       IN  IF f.err # ""
           THEN /\ ret' = Outcome(TotalOp, call.from, call.to, f, call.began,
                                  Pending)
                /\ call' = Idle
           ELSE /\ call' = [call EXCEPT !.pc = "temporal", !.frequency = f]
                /\ ret' = ret
    /\ UNCHANGED <<store, conn, clock, job, args, env>>

\* Line 390.
TotalTemporal ==
    /\ call.pc = "temporal"
    /\ LET t == calculate_temporal_score(account_relationships, transfers,
                                         clock, call.from, call.to)
       IN  IF t.err # ""
           THEN /\ ret' = Outcome(TotalOp, call.from, call.to, t, call.began,
                                  Pending)
                /\ call' = Idle
           ELSE /\ call' = [call EXCEPT !.pc = "network", !.temporal = t]
                /\ ret' = ret
    /\ UNCHANGED <<store, conn, clock, job, args, env>>

\* Lines 391-435.
TotalNetwork ==
    /\ call.pc = "network"
    /\ LET n == calculate_network_score(account_relationships, ConnView,
                                        call.from, call.to)
           r == calculate_risk_score(account_relationships, accounts,
                                     transfers, call.from, call.to)
       IN  ret' = Outcome(TotalOp, call.from, call.to,
                     IF n.err # "" THEN n
                     ELSE Returned(
                            Aggregate(call.volume.score, call.frequency.score,
                                      call.temporal.score, n.score, r.score),
                            [volume |-> call.volume.details,
                             frequency |-> call.frequency.details,
                             temporal |-> call.temporal.details,
                             network |-> n.details, risk |-> r.details]),
                     call.began, call.temporal)
    /\ call' = Idle
    /\ UNCHANGED <<store, conn, clock, job, args, env>>

-----------------------------------------------------------------------------
(* Scoring against a store the ingestion pipeline fills.                   *)

MaxBalance == 15
MaxDays == 2

\* The pipeline appends a transfer and maintains the pair's aggregate row.
IngestTransfer ==
    /\ WriteLockFree
    /\ env.changes < MaxChanges
    /\ \E k \in IngestKeys, v \in 1..MaxVolume :
        /\ transfers' = transfers \cup
             {[id |-> env.changes + 1, from_address |-> k[1], to_address |-> k[2],
               value |-> v, timestamp |-> clock.utc]}
        /\ account_relationships' =
             Overlay(account_relationships,
                [x \in {k} |->
                    IF k \in DOMAIN account_relationships
                    THEN [account_relationships[k] EXCEPT
                            !.total_volume = @ + v, !.transfer_count = @ + 1]
                    ELSE RelRow(v, 1, clock.utc)])
    /\ env' = [env EXCEPT !.changes = env.changes + 1]
    /\ ret' = NoRet
    /\ UNCHANGED <<accounts, account_network_metrics,
                   conn, clock, call, job, args>>

\* A day passes.
Tick ==
    /\ clock.utc < MaxDays * Day
    /\ clock' = [clock EXCEPT !.utc = clock.utc + Day]
    /\ ret' = Kept(ret)
    /\ UNCHANGED <<store, conn, call, job, args, env>>

AccountTables ==
    {[a \in S |-> [balance |-> b, created_at |-> 0]] :
        S \in {{}, Addr}, b \in {MaxBalance}}

InitScore ==
    /\ accounts \in AccountTables
    /\ transfers = {} /\ account_relationships = <<>>
    /\ account_network_metrics = <<>>
    /\ conn = ConnOpen /\ clock = [utc |-> 0, tz |-> 0]
    /\ call = Idle /\ job = NoJob /\ ret = NoRet /\ args = <<>> /\ env = NoEnv

\* The pairs scored: one the pipeline writes, and one it does not write
\* whose accounts are linked through a third.
CallPairs == {<<1, 2>>, <<1, MaxAddr>>, <<2, 1>>}

NextScore ==
    \/ \E p \in CallPairs : \E f \in {p[1]}, t \in {p[2]} :
        \/ CallVolume(f, t)
        \/ CallFrequency(f, t)
        \/ CallTemporal(f, t)
        \/ CallNetwork(f, t)
        \/ CallRisk(f, t)
        \/ \E export \in BOOLEAN : BeginTotal(f, t, export)
    \/ TotalVolume \/ TotalFrequency \/ TotalTemporal \/ TotalNetwork
    \/ IngestTransfer
    \/ Tick

SpecScore == InitScore /\ [][NextScore]_vars

-----------------------------------------------------------------------------
(* The read-only queries over the stored score columns.                    *)

\* A NULL identity_display, or no accounts row for the LEFT JOIN to find.
NullLabel == "NULL"
identity_display(accts, a) ==
    IF a \in DOMAIN accts /\ "identity_display" \in DOMAIN accts[a]
    THEN accts[a].identity_display
    ELSE NullLabel

\* SQLite's order of a score column: NULL sorts below every number.
ScoreLe(x, y) == x = NullScore \/ (y # NullScore /\ QLe(x, y))

Perms(S) ==
    {p \in [1..Cardinality(S) -> S] :
        \A i, j \in 1..Cardinality(S) : i # j => p[i] # p[j]}

\* ORDER BY col DESC with no further sort key: every arrangement of the rows
\* K that does not put a smaller value before a larger one.  Which of them
\* comes out for rows of equal value is left to the storage order.
DescOrders(rels, K, col) ==
    {p \in Perms(K) :
        \A i \in 1..(Cardinality(K) - 1) : ScoreLe(rels[p[i + 1]][col], rels[p[i]][col])}

\* Lines 504-510: ar.* and the two identity labels.
TopRow(rels, accts, k) ==
    [from_address |-> k[1], to_address |-> k[2], ar |-> rels[k],
     from_identity |-> identity_display(accts, k[1]),
     to_identity |-> identity_display(accts, k[2])]

\* The join as an inner join: rows without both accounts are dropped.
get_top_relationships_inner(rels, accts, limit) ==
    LET K == {k \in DOMAIN rels : k[1] \in DOMAIN accts /\ k[2] \in DOMAIN accts}
        m == IF limit < 0 THEN Cardinality(K) ELSE Min(limit, Cardinality(K))
    IN  {[i \in 1..m |-> TopRow(rels, accts, p[i])] :
            p \in DescOrders(rels, K, "total_score")}

\* Lines 499-515: the lists the statement can return.  A negative LIMIT is no
\* limit.
TopLimit == 100
get_top_relationships(rels, accts, limit) ==
    LET K == DOMAIN rels
        m == IF limit < 0 THEN Cardinality(K) ELSE Min(limit, Cardinality(K))
    IN  {[i \in 1..m |-> TopRow(rels, accts, p[i])] :
            p \in DescOrders(rels, K, "total_score")}

\* Lines 523-530.
SuspiciousRow(rels, k) ==
    [from_address |-> k[1], to_address |-> k[2],
     total_score |-> rels[k].total_score, volume_score |-> rels[k].volume_score,
     risk_score |-> rels[k].risk_score, total_volume |-> rels[k].total_volume,
     transfer_count |-> rels[k].transfer_count]

\* The thresholds compared with >= instead of >.
find_suspicious_relationships_inclusive(rels, min_volume_score, min_risk_score) ==
    LET K == {x \in DOMAIN rels :
                /\ rels[x].volume_score # NullScore /\ rels[x].risk_score # NullScore
                /\ QLe(min_volume_score, rels[x].volume_score)
                /\ QLe(min_risk_score, rels[x].risk_score)}
    IN  {[i \in 1..Cardinality(K) |-> SuspiciousRow(rels, p[i])] :
            p \in DescOrders(rels, K, "risk_score")}

\* Lines 517-536: WHERE volume_score > ? AND risk_score > ? ORDER BY
\* risk_score DESC; a NULL score satisfies neither comparison.
find_suspicious_relationships(rels, min_volume_score, min_risk_score) ==
    LET K == {x \in DOMAIN rels :
                /\ rels[x].volume_score # NullScore /\ rels[x].risk_score # NullScore
                /\ QLt(min_volume_score, rels[x].volume_score)
                /\ QLt(min_risk_score, rels[x].risk_score)}
    IN  {[i \in 1..Cardinality(K) |-> SuspiciousRow(rels, p[i])] :
            p \in DescOrders(rels, K, "risk_score")}

ScorerOps == {"calculate_volume_score", "calculate_frequency_score",
              "calculate_temporal_score", "calculate_network_score",
              "calculate_risk_score"}

ScoreFields == {"volume_score", "frequency_score", "temporal_score",
                "network_score", "risk_score", "total_score"}

(* C1: every sub-score and the total score that calculate_total_score      *)
(* returns lie in [0,100], for every store content and every pair.         *)
C1_ScoresInRange ==
    ret.op = "calculate_total_score" =>
        /\ ret.result.err = ""
        /\ \A f \in ScoreFields : InRange(ret.result.score[f], 0, 100)

(* C3: when the pair has no account_relationships row, each of the five    *)
(* scorers returns 0.0 with empty details and raises nothing, and          *)
(* calculate_total_score returns total_score 0.0, whatever else the store  *)
(* holds.                                                                  *)
C3_NoRowScoresZero ==
    (ret.op # "none" /\ ~ret.had_row /\ ret.quiet) =>
        /\ ret.result.err = ""
        /\ ret.op \in ScorerOps => IsEmptyResult(ret.result)
        /\ ret.op = "calculate_total_score" =>
               ret.result.score.total_score = Q(0)

(* C7: two calls of calculate_total_score for the same pair, with no       *)
(* change to any table from the start of the first to the end of the       *)
(* second, return the same sub-scores, total and details, whenever they    *)
(* are made.                                                               *)
C7_RepeatableTotal ==
    (ret.op = "calculate_total_score" /\ ret.quiet
       /\ ret.prev.op = "calculate_total_score" /\ ret.prev.quiet) =>
        /\ ret.result = ret.prev.result
        /\ ret.temporal = ret.prev.temporal

\* A step of a score computation: a call begins, advances or finishes.
ScoreStep == call' # call \/ (ret' # ret /\ ret' # NoRet)

(* C10: every step of a component scorer, of calculate_total_score and of  *)
(* export_scores_to_json leaves the four tables as they were, and with     *)
(* them the results of get_top_relationships and                           *)
(* find_suspicious_relationships.                                          *)
C10_PureRead ==
    [][ScoreStep =>
        /\ store' = store
        /\ get_top_relationships(account_relationships', accounts', TopLimit)
             = get_top_relationships(account_relationships, accounts, TopLimit)
        /\ find_suspicious_relationships(account_relationships', Q(70), Q(30))
             = find_suspicious_relationships(account_relationships, Q(70), Q(30))
      ]_vars

C10_Witness ==
    /\ ret.op = "export_scores_to_json"
    /\ ret.had_row /\ ret.quiet
    /\ QLt(Q(0), ret.temporal.score)
    /\ get_top_relationships(account_relationships, accounts, TopLimit) # {<<>>}

-----------------------------------------------------------------------------
(* get_top_relationships and find_suspicious_relationships on tables whose *)
(* score columns another writer has filled.                                *)

MaxLimit == 3
QueryKeys == {<<1, 2>>, <<2, 1>>, <<2, MaxAddr>>}
QueryThresholds == {<<Q(70), Q(30)>>, <<Q(70), Q(20)>>}

QueryRows ==
    {[RelRow(1, 1, 0) EXCEPT !.total_score = t, !.volume_score = vr[1],
                             !.risk_score = vr[2]] :
        t \in {NullScore, Q(10), Q(50)},
        vr \in {<<NullScore, Q(40)>>, <<Q(70), Q(40)>>,
                <<Q(80), Q(30)>>, <<Q(80), Q(40)>>}}

QueryTables == UNION {[S -> QueryRows] : S \in SUBSET QueryKeys}

QueryAccounts ==
    {[a \in S |-> [balance |-> MaxBalance, created_at |-> 0,
                   identity_display |-> IF a = 1 THEN "alice" ELSE NullLabel]] :
        S \in {{1}, Addr}}

InitQuery ==
    /\ accounts \in QueryAccounts
    /\ transfers = {} /\ account_relationships \in QueryTables
    /\ account_network_metrics = <<>>
    /\ conn = ConnOpen /\ clock = [utc |-> 0, tz |-> 0]
    /\ call = Idle /\ job = NoJob /\ ret = NoRet /\ args = <<>> /\ env = NoEnv

\* What the caller holds after a query: the list returned, whether the call
\* before it was the same query with the same arguments, and whether that
\* one returned the same list.
QueryOutcome(op, a, result) ==
    [op |-> op, args |-> a, result |-> result,
     repeated |-> ret.op = op /\ ret.args = a,
     same |-> ret.op = op /\ ret.args = a /\ ret.result = result]

CallTop(limit) ==
    /\ CanCall
    /\ \E r \in get_top_relationships(account_relationships, accounts, limit) :
         ret' = QueryOutcome("get_top_relationships", <<limit>>, r)
    /\ UNCHANGED <<store, conn, clock, call, job, args, env>>

CallSuspicious(min_volume_score, min_risk_score) ==
    /\ CanCall
    /\ \E r \in find_suspicious_relationships(account_relationships,
                    min_volume_score, min_risk_score) :
         ret' = QueryOutcome("find_suspicious_relationships",
                             <<min_volume_score, min_risk_score>>, r)
    /\ UNCHANGED <<store, conn, clock, call, job, args, env>>

NextQuery ==
    \/ \E limit \in 0..MaxLimit : CallTop(limit)
    \/ \E th \in QueryThresholds : CallSuspicious(th[1], th[2])

SpecQuery == InitQuery /\ [][NextQuery]_vars

QueryOps == {"get_top_relationships", "find_suspicious_relationships"}

PairsOf(result) == [i \in 1..Len(result) |->
                       <<result[i].from_address, result[i].to_address>>]

NoRepeats(q) == \A i, j \in 1..Len(q) : i # j => q[i] # q[j]

(* C12: find_suspicious_relationships returns exactly the relationships    *)
(* whose stored volume_score and risk_score are both present and strictly  *)
(* above the thresholds, each once, in non-increasing order of risk_score. *)
C12_SuspiciousExact ==
    ret.op = "find_suspicious_relationships" =>
        LET q == PairsOf(ret.result)
            rels == account_relationships
        IN  /\ NoRepeats(q)
            /\ {q[i] : i \in 1..Len(q)}
                 = {k \in DOMAIN rels :
                      /\ rels[k].volume_score # NullScore
                      /\ rels[k].risk_score # NullScore
                      /\ QLt(ret.args[1], rels[k].volume_score)
                      /\ QLt(ret.args[2], rels[k].risk_score)}
            /\ \A i \in 1..Len(q) :
                 /\ ret.result[i].risk_score = rels[q[i]].risk_score
                 /\ ret.result[i].volume_score = rels[q[i]].volume_score
            /\ \A i \in 1..(Len(q) - 1) :
                 QLe(ret.result[i + 1].risk_score, ret.result[i].risk_score)

C12_Witness ==
    /\ ret.op = "find_suspicious_relationships"
    /\ Len(ret.result) = 2
    /\ QLt(ret.result[2].risk_score, ret.result[1].risk_score)
    /\ \E k \in DOMAIN account_relationships :
         account_relationships[k].volume_score = ret.args[1]

(* C13: get_top_relationships(limit), limit >= 0, returns min(limit, n)    *)
(* rows in non-increasing order of total_score (NULL lowest), leaves out   *)
(* no relationship with a total_score above a returned one, and returns a  *)
(* relationship also when an account row or label is missing, the label    *)
(* then being null.                                                        *)
C13_TopRows ==
    ret.op = "get_top_relationships" =>
        LET q == PairsOf(ret.result)
            rels == account_relationships
            n == Cardinality(DOMAIN rels)
        IN  /\ Len(q) = Min(ret.args[1], n)
            /\ NoRepeats(q)
            /\ \A i \in 1..Len(q) :
                 /\ q[i] \in DOMAIN rels
                 /\ ret.result[i].ar = rels[q[i]]
                 /\ q[i][1] \notin DOMAIN accounts =>
                        ret.result[i].from_identity = NullLabel
                 /\ q[i][2] \notin DOMAIN accounts =>
                        ret.result[i].to_identity = NullLabel
                 /\ q[i][1] \in DOMAIN accounts =>
                        ret.result[i].from_identity = accounts[q[i][1]].identity_display
            /\ \A i \in 1..(Len(q) - 1) :
                 ScoreLe(rels[q[i + 1]].total_score, rels[q[i]].total_score)
            /\ \A k \in DOMAIN rels \ {q[i] : i \in 1..Len(q)} :
                 \A i \in 1..Len(q) :
                     ScoreLe(rels[k].total_score, rels[q[i]].total_score)

C13_Witness ==
    /\ ret.op = "get_top_relationships"
    /\ Len(ret.result) = 2
    /\ Cardinality(DOMAIN account_relationships) = 3
    /\ ret.result[1].ar.total_score = Q(50)
    /\ ret.result[2].ar.total_score = Q(10)
    /\ \E i \in 1..2 : ret.result[i].to_address \notin DOMAIN accounts

-----------------------------------------------------------------------------
(* The volume scorer on two stores that differ in one total_volume.        *)

MaxTotalVolume == 5
VolKeys == {<<1, 2>>, <<2, 1>>, <<2, MaxAddr>>}

VolTables ==
    UNION {[S -> {RelRow(v, c, 0) : v \in 0..MaxTotalVolume, c \in 0..1}] :
              S \in SUBSET VolKeys}

InitVolume ==
    /\ accounts = [a \in Addr |-> [balance |-> MaxBalance, created_at |-> 0]]
    /\ transfers = {} /\ account_relationships \in VolTables
    /\ account_network_metrics = <<>>
    /\ conn = ConnOpen /\ clock = [utc |-> 0, tz |-> 0]
    /\ call = Idle /\ job = NoJob /\ ret = NoRet /\ args = <<>> /\ env = NoEnv

\* The pipeline raises the total_volume of the pair just scored; args keeps
\* what the scorer returned before.
RaiseVolume ==
    /\ args = <<>>
    /\ ret.op = "calculate_volume_score" /\ ret.had_row
    /\ \E v \in 1..MaxTotalVolume :
        LET k == <<ret.from, ret.to>> IN
        /\ v > account_relationships[k].total_volume
        /\ account_relationships' =
             [account_relationships EXCEPT ![k].total_volume = v]
        /\ args' = [k |-> k, before |-> ret.result,
                    was |-> account_relationships[k].total_volume]
    /\ ret' = NoRet
    /\ env' = [env EXCEPT !.changes = env.changes + 1]
    /\ UNCHANGED <<accounts, transfers, account_network_metrics,
                   conn, clock, call, job>>

NextVolume ==
    \/ \E k \in VolKeys : CallVolume(k[1], k[2])
    \/ RaiseVolume

SpecVolume == InitVolume /\ [][NextVolume]_vars

ScoredAfterRaise ==
    /\ args # <<>>
    /\ ret.op = "calculate_volume_score"
    /\ <<ret.from, ret.to>> = args.k

(* C8: of two stores that differ only in the total_volume of (A,B), the    *)
(* one with the larger total_volume gives (A,B) a volume_component greater *)
(* than or equal to the other's.                                           *)
C8_VolumeMonotone ==
    ScoredAfterRaise =>
        QLe(args.before.details.volume_component,
            ret.result.details.volume_component)

C8_Witness ==
    /\ ScoredAfterRaise
    /\ QLt(args.before.details.volume_component,
           ret.result.details.volume_component)
    /\ QLt(ret.result.details.volume_component, Q(40))

\* Line 67, for any row: total_volume / max(transfer_count, 1).
avg_transfer_size(row) == Norm(ToReal(row.total_volume), Max(row.transfer_count, 1))

\* The rows whose average transfer size, by the formula of line 67, is
\* strictly below x.
BelowAvgSize(rels, x) == {k \in DOMAIN rels : QLt(avg_transfer_size(rels[k]), x)}

VolumeScored == ret.op = "calculate_volume_score" /\ ret.had_row

(* C14: each percentile rank is the number of rows whose value is strictly *)
(* below the subject's, divided by max(number of rows, 1), and lies in     *)
(* [0, 1).                                                                 *)
C14_PercentileRanks ==
    VolumeScored =>
        LET rels == account_relationships
            d == ret.result.details
            n == Max(Cardinality(DOMAIN rels), 1)
        IN  /\ d.volume_percentile =
                 Norm(Cardinality({k \in DOMAIN rels :
                         ToReal(rels[k].total_volume) < d.total_volume[1]}), n)
            /\ d.avg_size_percentile =
                 Norm(Cardinality(BelowAvgSize(rels, d.avg_transfer_size)), n)
            /\ QLe(Q(0), d.volume_percentile) /\ QLt(d.volume_percentile, Q(1))
            /\ QLe(Q(0), d.avg_size_percentile) /\ QLt(d.avg_size_percentile, Q(1))

(* C15: in the average-size percentile every row, also one with            *)
(* transfer_count = 0, is compared by total_volume / max(transfer_count, 1)*)
(* and counted when that is strictly below the subject's average.          *)
C15_NoRowExcluded ==
    VolumeScored =>
        \A k \in DOMAIN account_relationships :
            (account_relationships[k].transfer_count = 0
               /\ QLt(avg_transfer_size(account_relationships[k]),
                      ret.result.details.avg_transfer_size))
            => QLe(Norm(1 + Cardinality({j \in DOMAIN account_relationships :
                            /\ account_relationships[j].transfer_count # 0
                            /\ QLt(avg_transfer_size(account_relationships[j]),
                                   ret.result.details.avg_transfer_size)}),
                        Max(Cardinality(DOMAIN account_relationships), 1)),
                   ret.result.details.avg_size_percentile)

-----------------------------------------------------------------------------
(* The volume scorer on one relationship whose sender's balance varies.    *)

BalanceAccounts ==
    {<<>>} \cup {[a \in {1} |-> [balance |-> b, created_at |-> 0]] : b \in 0..MaxBalance}

InitBalance ==
    /\ accounts \in BalanceAccounts
    /\ transfers = {}
    /\ account_relationships \in
         {[k \in {<<1, 2>>} |-> RelRow(v, 1, 0)] : v \in 0..MaxTotalVolume}
    /\ account_network_metrics = <<>>
    /\ conn = ConnOpen /\ clock = [utc |-> 0, tz |-> 0]
    /\ call = Idle /\ job = NoJob /\ ret = NoRet /\ args = <<>> /\ env = NoEnv

NextBalance == CallVolume(1, 2)

SpecBalance == InitBalance /\ [][NextBalance]_vars

\* The sender's stored balance, 0 when the sender has no accounts row.
StoredBalance == IF ret.from \in DOMAIN accounts THEN accounts[ret.from].balance ELSE 0
StoredVolume == account_relationships[<<ret.from, ret.to>>].total_volume

-----------------------------------------------------------------------------
(* The risk scorer on one relationship whose stored transfer_count and     *)
(* whose transfers vary independently.                                     *)

MaxValue == 5
MaxCount == 5

RiskTransfers ==
    {{[id |-> i, from_address |-> 1, to_address |-> 2, value |-> f[i],
       timestamp |-> 0] : i \in DOMAIN f} :
        f \in UNION {[S -> 1..MaxValue] : S \in SUBSET {1, 2}}}

InitRisk ==
    /\ accounts = <<>>
    /\ transfers \in RiskTransfers
    /\ account_relationships \in
         {[k \in {<<1, 2>>} |-> RelRow(1, c, 0)] : c \in 0..MaxCount}
    /\ account_network_metrics = <<>>
    /\ conn = ConnOpen /\ clock = [utc |-> 0, tz |-> 0]
    /\ call = Idle /\ job = NoJob /\ ret = NoRet /\ args = <<>> /\ env = NoEnv

NextRisk == CallRisk(1, 2)

SpecRisk == InitRisk /\ [][NextRisk]_vars

RiskScored == ret.op = "calculate_risk_score" /\ ret.had_row
ScoredTransfers == PairTransfers(transfers, ret.from, ret.to)
StoredCount == account_relationships[<<ret.from, ret.to>>].transfer_count

(* C17: round_number_risk is min(25, round_count / max(transfer_count, 1)  *)
(* x 50), transfer_count being the stored aggregate and round_count the    *)
(* number of the pair's transfers whose value is a multiple of 10^12; it   *)
(* is exactly 25 when the pair has a transfer and all its transfers are    *)
(* such multiples.                                                         *)
C17_RoundNumberRisk ==
    RiskScored =>
        LET rr == ret.result.details.round_number_risk
            exact == {t \in ScoredTransfers : t.value % OneDot = 0}
        IN  /\ rr = QMin(Q(25), QMul(Norm(Cardinality(exact), Max(StoredCount, 1)),
                                      Q(50)))
            /\ (ScoredTransfers # {} /\ exact = ScoredTransfers) => rr = Q(25)

-----------------------------------------------------------------------------
(* The risk scorer on transfers that pass through an intermediary.         *)

MaxMinutes == 7

\* One transfer 1 -> 2, one transfer 2 -> MaxAddr, and possibly a second
\* transfer 2 -> MaxAddr, each at a minute of its own.
RelayTransfers ==
    {{[id |-> 1, from_address |-> 1, to_address |-> 2, value |-> 1,
       timestamp |-> a],
      [id |-> 2, from_address |-> 2, to_address |-> MaxAddr, value |-> 1,
       timestamp |-> b]}
     \cup {[id |-> 3, from_address |-> 2, to_address |-> MaxAddr, value |-> 1,
            timestamp |-> c] : c \in C} :
        a \in 0..MaxMinutes, b \in 0..MaxMinutes,
        C \in {{}} \cup {{c} : c \in 0..MaxMinutes}}

InitRelay ==
    /\ accounts = <<>>
    /\ transfers \in RelayTransfers
    /\ account_relationships = [k \in {<<1, MaxAddr>>} |-> RelRow(1, 1, 0)]
    /\ account_network_metrics = <<>>
    /\ conn = ConnOpen /\ clock = [utc |-> 0, tz |-> 0]
    /\ call = Idle /\ job = NoJob /\ ret = NoRet /\ args = <<>> /\ env = NoEnv

NextRelay == CallRisk(1, MaxAddr)

SpecRelay == InitRelay /\ [][NextRelay]_vars

\* The pairs (t1, t2) with t1 from A to some X, t2 from that X to B, and t2
\* not before t1 and less than five minutes after it.
Relays(trs, a, b) ==
    {p \in trs \X trs :
        /\ p[1].from_address = a
        /\ p[1].to_address = p[2].from_address
        /\ p[2].to_address = b
        /\ p[2].timestamp >= p[1].timestamp
        /\ p[2].timestamp - p[1].timestamp < RapidMinutes}

(* C21: the rapid-relay count for (A,B) is the number of transfer pairs    *)
(* (t1, t2) with t1 from A to an intermediary X, t2 from X to B following  *)
(* t1 within 5 minutes; a pair whose X -> B transfer came before the       *)
(* A -> X transfer is not counted.                                         *)
C21_RapidRelayCount ==
    RiskScored =>
        ret.result.details.rapid_transfers
            = Cardinality(Relays(transfers, ret.from, ret.to))

-----------------------------------------------------------------------------
(* The risk scorer on a relationship and a receiving account created at    *)
(* times of their own.                                                     *)

MaxGapDays == 8
\* Creation times half a day apart.
CreationTimes == {h * (Day \div 2) : h \in 0..(2 * MaxGapDays)}

InitNewAccount ==
    /\ accounts \in {<<>>} \cup
         {[a \in {2} |-> [balance |-> 0, created_at |-> c]] : c \in CreationTimes}
    /\ transfers = {}
    /\ account_relationships \in
         {[k \in {<<1, 2>>} |-> RelRow(1, 1, r)] : r \in CreationTimes}
    /\ account_network_metrics = <<>>
    /\ conn = ConnOpen /\ clock = [utc |-> 0, tz |-> 0]
    /\ call = Idle /\ job = NoJob /\ ret = NoRet /\ args = <<>> /\ env = NoEnv

NextNewAccount == CallRisk(1, 2)

SpecNewAccount == InitNewAccount /\ [][NextNewAccount]_vars

\* The relationship's first-seen time is less than 7 days from the creation
\* time of the receiving account, before or after it.
WithinSevenDays ==
    /\ ret.to \in DOMAIN accounts
    /\ Abs(account_relationships[<<ret.from, ret.to>>].created_at
           - accounts[ret.to].created_at) < 7 * Day

(* C22: the new-account flag is 1 exactly when the relationship's          *)
(* created_at is within 7 days of the creation time of B, and 0 when the   *)
(* two are further apart in either direction or B has no accounts row;     *)
(* new_account_risk is flag x 20.                                          *)
C22_NewAccountFlag ==
    RiskScored =>
        /\ ret.result.details.new_account_interaction = WithinSevenDays
        /\ ret.result.details.new_account_risk
             = Q(IF ret.result.details.new_account_interaction THEN 20 ELSE 0)

-----------------------------------------------------------------------------
(* The scorers on transfers whose timestamp text may be malformed: three   *)
(* transfers of the pair (1,2), and a transfer out of 1 followed by a      *)
(* transfer into 2 that the rapid-relay query reads.                       *)

TransferTimes == {0, 2 * Hour, Day}

\* A transfer row, its timestamp text malformed when bad.
Transfer(id, from_addr, to_addr, ts, bad) ==
    IF bad
    THEN [id |-> id, from_address |-> from_addr, to_address |-> to_addr,
          value |-> 1, timestamp |-> ts, malformed |-> TRUE]
    ELSE [id |-> id, from_address |-> from_addr, to_address |-> to_addr,
          value |-> 1, timestamp |-> ts]

MalformedTransfers ==
    {{Transfer(1, 1, 2, a, 1 \in M), Transfer(2, 1, 2, b, 2 \in M),
      Transfer(3, 1, 2, c, 3 \in M),
      Transfer(4, 1, MaxAddr, 0, FALSE), Transfer(5, MaxAddr, 2, 1, 5 \in M)} :
        a \in TransferTimes, b \in TransferTimes, c \in TransferTimes,
        M \in SUBSET {1, 2, 3, 5}}

InitMalformed ==
    /\ accounts = <<>>
    /\ transfers \in MalformedTransfers
    /\ account_relationships =
         [k \in {<<1, 2>>, <<1, MaxAddr>>, <<MaxAddr, 2>>} |->
            RelRow(IF k = <<1, 2>> THEN 3 ELSE 1,
                   IF k = <<1, 2>> THEN 3 ELSE 1, 0)]
    /\ account_network_metrics = <<>>
    /\ conn = ConnOpen /\ clock = [utc |-> MaxDays * Day, tz |-> 0]
    /\ call = Idle /\ job = NoJob /\ ret = NoRet /\ args = <<>> /\ env = NoEnv

NextMalformed ==
    \/ CallFrequency(1, 2)
    \/ CallTemporal(1, 2)
    \/ CallRisk(1, 2)
    \/ BeginTotal(1, 2, FALSE)
    \/ TotalVolume
    \/ TotalFrequency
    \/ TotalTemporal
    \/ TotalNetwork

SpecMalformed == InitMalformed /\ [][NextMalformed]_vars

\* The transfers whose timestamp a finished call has read: those of the
\* pair and, for the risk scorer and the total score, those the rapid-relay
\* query joins (out of A, into B).
TimestampsRead ==
    IF ret.op \in {"calculate_frequency_score", "calculate_temporal_score"}
    THEN PairTransfers(transfers, ret.from, ret.to)
    ELSE IF ret.op \in {"calculate_risk_score", "calculate_total_score"}
    THEN {t \in transfers : t.from_address = ret.from \/ t.to_address = ret.to}
    ELSE {}

(* C23: when a transfer of the pair, or one the rapid-relay check reads,   *)
(* has a malformed timestamp, calculate_total_score ends in an error and   *)
(* returns no score, and no scorer skips the transfer or defaults its      *)
(* timestamp: every scorer that reads it ends in an error, whatever the    *)
(* position of the malformed value among the pair's timestamps.            *)
C23_MalformedTimestampFatal ==
    (\E t \in TimestampsRead : ~WellFormed(t)) => ret.result.err # ""

-----------------------------------------------------------------------------
(* The temporal scorer on a relationship with one transfer, called at      *)
(* evaluation times up to a year and more after it.                        *)

MaxAgeDays == 367
EvaluationClocks ==
    {[utc |-> d * Day + h * Hour, tz |-> z * Hour] :
        d \in 0..MaxAgeDays, h \in {0, 12}, z \in {-5, 0, 2}}

InitRecency ==
    /\ accounts = <<>>
    /\ transfers \in {{Transfer(1, 1, 2, t, FALSE)} : t \in {0, 6 * Hour}}
    /\ account_relationships = [k \in {<<1, 2>>} |-> RelRow(1, 1, 0)]
    /\ account_network_metrics = <<>>
    /\ conn = ConnOpen /\ clock \in EvaluationClocks
    /\ call = Idle /\ job = NoJob /\ ret = NoRet /\ args = <<>> /\ env = NoEnv

NextRecency == CallTemporal(1, 2)

SpecRecency == InitRecency /\ [][NextRecency]_vars

TemporalScored == ret.op = "calculate_temporal_score" /\ ret.had_row

\* The recency table of the specification: upper limits in days and the
\* component each gives, the first limit that fits wins.
RecencySteps == <<<<1, 40>>, <<7, 35>>, <<30, 25>>, <<90, 15>>, <<365, 5>>>>
RecencyStep(days) ==
    LET fits == {i \in 1..Len(RecencySteps) : days <= RecencySteps[i][1]}
    IN  IF fits = {} THEN 0 ELSE RecencySteps[MinOf(fits)][2]

\* Whole days from the last transfer to the evaluation time datetime.now().
DaysSinceLast ==
    DeltaDays(PyNow(clock),
              LastOf(PairTransfers(transfers, ret.from, ret.to)).timestamp)

-----------------------------------------------------------------------------
(* The frequency scorer on a relationship with two transfers at different  *)
(* times of day.                                                           *)

MaxSpanDays == 3
SpanTimes == {d * Day + h * Hour : d \in 0..MaxSpanDays, h \in {1, 12, 23}}

InitDaysActive ==
    /\ accounts = <<>>
    /\ transfers \in {{Transfer(1, 1, 2, a, FALSE), Transfer(2, 1, 2, b, FALSE)} :
                         a \in SpanTimes, b \in SpanTimes}
    /\ account_relationships = [k \in {<<1, 2>>} |-> RelRow(2, 2, 0)]
    /\ account_network_metrics = <<>>
    /\ conn = ConnOpen /\ clock = [utc |-> 0, tz |-> 0]
    /\ call = Idle /\ job = NoJob /\ ret = NoRet /\ args = <<>> /\ env = NoEnv

NextDaysActive == CallFrequency(1, 2)

SpecDaysActive == InitDaysActive /\ [][NextDaysActive]_vars

\* The frequency scorer returned a score with details.
FrequencyScored ==
    /\ ret.op = "calculate_frequency_score"
    /\ ret.result.err = ""
    /\ DOMAIN ret.result.details # {}

\* The calendar date of a timestamp, as a day number.
DateOf(ts) == ts \div Day

(* C25: in the frequency scorer days_active is (date of the last transfer  *)
(* - date of the first transfer) in days + 1, at least 1: the number of    *)
(* calendar days from the first transfer's day to the last transfer's day  *)
(* inclusive, whatever the times of day of the two transfers.              *)
C25_DaysActiveCalendar ==
    FrequencyScored =>
        LET T == PairTransfers(transfers, ret.from, ret.to)
        IN  ret.result.details.days_active
              = Max(DateOf(LastOf(T).timestamp) - DateOf(FirstOf(T).timestamp) + 1, 1)

-----------------------------------------------------------------------------
(* The five scorers on the stores where a denominator could be zero: no    *)
(* relationship rows at all, a row with transfer_count 0, a sender with    *)
(* balance 0 or without an accounts row, and a single transfer.            *)

MaxTransfers == 2

GuardTransfers ==
    {{Transfer(i, 1, 2, (i - 1) * Hour, FALSE) : i \in 1..n} : n \in 0..MaxTransfers}

InitGuards ==
    /\ accounts \in {<<>>} \cup
         {[a \in {1} |-> [balance |-> b, created_at |-> 0]] : b \in 0..1}
    /\ transfers \in GuardTransfers
    /\ account_relationships \in {<<>>} \cup
         {[k \in {<<1, 2>>} |-> RelRow(v, c, 0)] :
             v \in 0..MaxVolume, c \in 0..MaxTransfers}
    /\ account_network_metrics = <<>>
    /\ conn = ConnOpen /\ clock = [utc |-> 0, tz |-> 0]
    /\ call = Idle /\ job = NoJob /\ ret = NoRet /\ args = <<>> /\ env = NoEnv

NextGuards ==
    \/ CallVolume(1, 2)
    \/ CallFrequency(1, 2)
    \/ CallTemporal(1, 2)
    \/ CallNetwork(1, 2)
    \/ CallRisk(1, 2)

SpecGuards == InitGuards /\ [][NextGuards]_vars

(* C26: no scorer divides by zero: for every store content, including a    *)
(* relationship with transfer_count 0, a sender balance of 0, a single     *)
(* transfer and an empty relationship population, each scorer returns a    *)
(* score (a number, no quotient by zero) instead of failing.               *)
C26_ScorersReturn ==
    ret.op \in ScorerOps =>
        /\ ret.result.err = ""
        /\ ret.result.score[2] # 0

-----------------------------------------------------------------------------
(* The Centrality Engine and the network scorer on relationship graphs     *)
(* with edges in both directions and self-relationships.                   *)

MaxEdges == 3

GraphTables ==
    {[k \in S |-> RelRow(1, 1, 0)] :
        S \in {E \in SUBSET (Addr \X Addr) : Cardinality(E) <= MaxEdges}}

InitGraph ==
    /\ accounts = <<>> /\ transfers = {}
    /\ account_relationships \in GraphTables
    /\ account_network_metrics = <<>>
    /\ conn = ConnOpen /\ clock = [utc |-> 0, tz |-> 0]
    /\ call = Idle /\ job = NoJob /\ ret = NoRet /\ args = <<>> /\ env = NoEnv

NextGraph ==
    \/ StartRun \/ UpsertRow \/ CommitRun
    \/ CallNetwork(1, 2)
    \/ CallNetwork(1, 1)

SpecGraph == InitGraph /\ [][NextGraph]_vars

\* N(x): the successors and predecessors of x in the relationship graph.
NeighbourhoodOf(x) ==
    {u \in Addr : <<x, u>> \in DOMAIN account_relationships
                  \/ <<u, x>> \in DOMAIN account_relationships}

\* The sum over u in N(v) of |N(v) \cap N(u)|, as a number of pairs.
CommonCountSum(v) ==
    Cardinality({p \in NeighbourhoodOf(v) \X NeighbourhoodOf(v) :
                    p[2] \in NeighbourhoodOf(p[1])})

(* C27: for every node v of the relationship graph update_network_metrics  *)
(* stores common_neighbors_avg(v) = the average over the u in N(v) of      *)
(* |N(v) \cap N(u)|, N(x) being the successors and predecessors of x, and  *)
(* 0 when N(v) is empty; the sum of the counts is at most |N(v)|^2 (the    *)
(* stored average at most |N(v)|).                                         *)
C27_CommonNeighborsAvg ==
    \A v \in DOMAIN ConnView :
        LET n == Cardinality(NeighbourhoodOf(v))
            stored == ConnView[v].common_neighbors_avg
        IN  /\ stored = IF n = 0 THEN Q(0) ELSE Norm(CommonCountSum(v), n)
            /\ QLe(QMul(stored, Q(n)), Q(n * n))
            /\ QLe(Q(0), stored)

C27_Witness ==
    /\ job.pc = "idle" /\ job.last.run > 0
    /\ \E v \in DOMAIN account_network_metrics :
         /\ <<v, v>> \notin DOMAIN account_relationships
         /\ account_network_metrics[v].common_neighbors_avg = Norm(1, 2)
    /\ \E u \in Addr : <<u, u>> \in DOMAIN account_relationships

(* C30: every account the network scorer counts as a common connection of  *)
(* (A,B) is a third party, different from both A and B, for every          *)
(* relationship graph, also with self-relationships (A -> A, B -> B) and   *)
(* with a direct relationship A -> B.                                      *)
C30_ThirdPartyOnly ==
    \A a, b \in Addr :
        counted_connections(account_relationships, a, b) \cap {a, b} = {}

-----------------------------------------------------------------------------
(* calculate_total_score while the ingestion pipeline commits.             *)

NextInterleave ==
    \/ BeginTotal(1, 2, FALSE)
    \/ TotalVolume \/ TotalFrequency \/ TotalTemporal \/ TotalNetwork
    \/ IngestTransfer

SpecInterleave == InitScore /\ [][NextInterleave]_vars

\* The store as it was after c commits of the pipeline: the transfers
\* appended so far and the aggregate rows of their pairs.
TransfersAt(c) == {t \in transfers : t.id <= c}

RECURSIVE SumValues(_)
SumValues(T) ==
    IF T = {} THEN 0
    ELSE LET t == CHOOSE x \in T : TRUE IN t.value + SumValues(T \ {t})

RelationshipsAt(c) ==
    [k \in {<<t.from_address, t.to_address>> : t \in TransfersAt(c)} |->
        LET T == PairTransfers(TransfersAt(c), k[1], k[2])
        IN  RelRow(SumValues(T), Cardinality(T), FirstOf(T).timestamp)]

\* What calculate_total_score holds before its last step is what the
\* scorers give on the store after c commits.
ComputedOn(c) ==
    /\ call.volume = calculate_volume_score(RelationshipsAt(c), accounts,
                                            call.from, call.to)
    /\ call.frequency = calculate_frequency_score(RelationshipsAt(c),
                            TransfersAt(c), call.from, call.to)
    /\ call.temporal = calculate_temporal_score(RelationshipsAt(c),
                           TransfersAt(c), clock, call.from, call.to)
    /\ calculate_risk_score(account_relationships, accounts, transfers,
                            call.from, call.to)
         = calculate_risk_score(RelationshipsAt(c), accounts, TransfersAt(c),
                                call.from, call.to)

(* C28: the sub-scores and details of one calculate_total_score are all    *)
(* computed from one store state, also when the ingestion pipeline commits *)
(* between two of its queries: never some from the state before a commit   *)
(* and others from the state after it.                                     *)
C28_OneStoreState ==
    call.pc = "network" => \E c \in call.began..env.changes : ComputedOn(c)

-----------------------------------------------------------------------------
(* The volume and frequency scorers on a relationship ranked among others. *)

PercentileKeys == {<<1, 2>>, <<1, MaxAddr>>, <<2, MaxAddr>>}

PercentileTables ==
    UNION {[S -> {RelRow(v, c, 0) : v \in 1..MaxVolume, c \in 0..MaxTransfers}] :
              S \in SUBSET PercentileKeys}

InitPercentile ==
    /\ accounts \in {<<>>} \cup
         {[a \in {1} |-> [balance |-> b, created_at |-> 0]] : b \in {1}}
    /\ transfers \in GuardTransfers
    /\ account_relationships \in PercentileTables
    /\ account_network_metrics = <<>>
    /\ conn = ConnOpen /\ clock = [utc |-> 0, tz |-> 0]
    /\ call = Idle /\ job = NoJob /\ ret = NoRet /\ args = <<>> /\ env = NoEnv

NextPercentile == CallVolume(1, 2) \/ CallFrequency(1, 2)

SpecPercentile == InitPercentile /\ [][NextPercentile]_vars

(* C29: for every store content volume_score and frequency_score are       *)
(* strictly below 100: a percentile rank is below 1, so volume_component   *)
(* and count_component are strictly below 40 and avg_size_component        *)
(* strictly below 30, and the final min(100, ..) of the two scorers never  *)
(* takes effect.                                                           *)
C29_BelowHundred ==
    /\ ret.op \in {"calculate_volume_score", "calculate_frequency_score"} =>
           ret.result.err = "" /\ QLt(ret.result.score, Q(100))
    /\ VolumeScored =>
           /\ QLt(ret.result.details.volume_percentile, Q(1))
           /\ QLt(ret.result.details.avg_size_percentile, Q(1))
           /\ QLt(ret.result.details.volume_component, Q(40))
           /\ QLt(ret.result.details.avg_size_component, Q(30))
           /\ ret.result.score
                = QAdd(QAdd(ret.result.details.volume_component,
                            ret.result.details.avg_size_component),
                       ret.result.details.relative_volume_component)
    /\ FrequencyScored =>
           /\ QLt(ret.result.details.count_percentile, Q(1))
           /\ QLt(ret.result.details.count_component, Q(40))
           /\ ret.result.score
                = QAdd(QAdd(ret.result.details.count_component,
                            ret.result.details.frequency_component),
                       ret.result.details.consistency_component)

C29_Witness ==
    /\ VolumeScored
    /\ ret.result.details.volume_percentile = Norm(2, 3)
    /\ ret.result.details.avg_size_percentile = Norm(2, 3)
    /\ ret.result.details.relative_volume_component = Q(30)
    /\ QLt(Q(75), ret.result.score)

-----------------------------------------------------------------------------
(* The three places that put a total score into a band.                    *)

\* RelationshipScorer._interpret_score, lines 563-574.
interpret_score(score) ==
    IF QLe(score, Q(20)) THEN "Very weak relationship (minimal interaction)"
    ELSE IF QLe(score, Q(40)) THEN "Weak relationship (occasional interaction)"
    ELSE IF QLe(score, Q(60)) THEN "Moderate relationship (regular interaction)"
    ELSE IF QLe(score, Q(80))
         THEN "Strong relationship (frequent, consistent interaction)"
    ELSE "Very strong relationship (high volume, frequent, well-connected)"

\* The thresholds taken as exclusive.
get_interpretation_exclusive(score) ==
    IF QLt(score, Q(20)) THEN "Very Weak Relationship"
    ELSE IF QLt(score, Q(40)) THEN "Weak Relationship"
    ELSE IF QLt(score, Q(60)) THEN "Moderate Relationship"
    ELSE IF QLt(score, Q(80)) THEN "Strong Relationship"
    ELSE "Very Strong Relationship"

\* ScoreVisualizer._get_interpretation, score_visualizer.py lines 216-227.
get_interpretation(score) ==
    IF QLe(score, Q(20)) THEN "Very Weak Relationship"
    ELSE IF QLe(score, Q(40)) THEN "Weak Relationship"
    ELSE IF QLe(score, Q(60)) THEN "Moderate Relationship"
    ELSE IF QLe(score, Q(80)) THEN "Strong Relationship"
    ELSE "Very Strong Relationship"

\* ScoreVisualizer.create_score_distribution, score_visualizer.py lines
\* 295-305: the category appended for one score.
score_category(score) ==
    IF QLe(score, Q(20)) THEN "Very Weak\n(0-20)"
    ELSE IF QLe(score, Q(40)) THEN "Weak\n(21-40)"
    ELSE IF QLe(score, Q(60)) THEN "Moderate\n(41-60)"
    ELSE IF QLe(score, Q(80)) THEN "Strong\n(61-80)"
    ELSE "Very Strong\n(81-100)"

\* The band each of the fifteen texts names.
BandOf(text) ==
    CASE text \in {"Very weak relationship (minimal interaction)",
                   "Very Weak Relationship", "Very Weak\n(0-20)"} -> 1
      [] text \in {"Weak relationship (occasional interaction)",
                   "Weak Relationship", "Weak\n(21-40)"} -> 2
      [] text \in {"Moderate relationship (regular interaction)",
                   "Moderate Relationship", "Moderate\n(41-60)"} -> 3
      [] text \in {"Strong relationship (frequent, consistent interaction)",
                   "Strong Relationship", "Strong\n(61-80)"} -> 4
      [] text \in {"Very strong relationship (high volume, frequent, well-connected)",
                   "Very Strong Relationship", "Very Strong\n(81-100)"} -> 5

BandDen == 4
BandScores == {Norm(n, BandDen) : n \in 0..(100 * BandDen)}

InitBands ==
    /\ accounts = <<>> /\ transfers = {} /\ account_relationships = <<>>
    /\ account_network_metrics = <<>>
    /\ conn = ConnOpen /\ clock = [utc |-> 0, tz |-> 0]
    /\ call = Idle /\ job = NoJob /\ ret = NoRet /\ env = NoEnv
    /\ args \in [score : BandScores]

Classify ==
    /\ ret = NoRet
    /\ ret' = [op |-> "classify",
               interpretation |-> interpret_score(args.score),
               summary |-> get_interpretation(args.score),
               category |-> score_category(args.score)]
    /\ UNCHANGED <<store, conn, clock, call, job, args, env>>

NextBands == Classify
SpecBands == InitBands /\ [][NextBands]_vars

(* C18: for every score in [0,100] the three classifications choose the    *)
(* same band, very weak up to 20, weak up to 40, moderate up to 60, strong *)
(* up to 80 and very strong above, the values 20, 40, 60 and 80 falling in *)
(* the lower band.                                                         *)
C18_SameBand ==
    ret.op = "classify" =>
        LET b == BandOf(ret.interpretation) IN
        /\ BandOf(ret.summary) = b
        /\ BandOf(ret.category) = b
        /\ (b = 1) = QLe(args.score, Q(20))
        /\ (b = 2) = (QLt(Q(20), args.score) /\ QLe(args.score, Q(40)))
        /\ (b = 3) = (QLt(Q(40), args.score) /\ QLe(args.score, Q(60)))
        /\ (b = 4) = (QLt(Q(60), args.score) /\ QLe(args.score, Q(80)))
        /\ (b = 5) = QLt(Q(80), args.score)

C18_Witness ==
    /\ ret.op = "classify"
    /\ args.score = Q(80)
    /\ BandOf(ret.interpretation) = 4
    /\ BandOf(ret.category) = 4

-----------------------------------------------------------------------------
(* The aggregation arithmetic as a function of its inputs: Init draws the  *)
(* five sub-scores from a grid over [0,100], Apply computes the record.    *)

GridDen == 6
SubScores == {Norm(100 * k, GridDen) : k \in 0..GridDen}

InitAgg ==
    /\ accounts = <<>> /\ transfers = {} /\ account_relationships = <<>>
    /\ account_network_metrics = <<>>
    /\ conn = ConnOpen /\ clock = [utc |-> 0, tz |-> 0]
    /\ call = Idle /\ job = NoJob /\ ret = NoRet /\ env = NoEnv
    /\ args \in [volume : SubScores, frequency : SubScores, temporal : SubScores,
                 network : SubScores, risk : SubScores]

ApplyAggregate ==
    /\ ret = NoRet
    /\ ret' = [op |-> "aggregate",
               score |-> Aggregate(args.volume, args.frequency, args.temporal,
                                   args.network, args.risk)]
    /\ UNCHANGED <<accounts, transfers, account_relationships,
                   account_network_metrics, conn, clock, call, job, args, env>>

NextAgg == ApplyAggregate
SpecAgg == InitAgg /\ [][NextAgg]_vars

(* C2: for all sub-scores and risk scores in [0,100], the total_score      *)
(* returned is at most the base_score reported in details['base_score'].   *)
C2_TotalAtMostBase ==
    ret.op = "aggregate" => QLe(ret.score.total_score, ret.score.base_score)

(* C2 as amended: total_score is base_score x risk_multiplier rounded to   *)
(* two decimals, so it exceeds base_score by at most the rounding error    *)
(* 0.005, and never exceeds base_score rounded to two decimals.            *)
C2_TotalAtMostBaseRounded ==
    ret.op = "aggregate" =>
        /\ QLe(ret.score.total_score, QAdd(ret.score.base_score, <<5, 1000>>))
        /\ QLe(ret.score.total_score, Round2(ret.score.base_score))

C2_Witness ==
    /\ ret.op = "aggregate"
    /\ QLt(ret.score.base_score, ret.score.total_score)

(* C9: base_score is the weighted sum 0.25 v + 0.25 f + 0.20 t + 0.30 n    *)
(* (at most 100), risk_multiplier is 1 - risk/200 and lies in [0.5, 1],    *)
(* being 1 at risk 0 and 0.5 at risk 100, and total_score is the product   *)
(* rounded to a multiple of 0.01 (within 0.005 of the product).            *)
C9_AggregationFormula ==
    ret.op = "aggregate" =>
        LET s == ret.score
            prod == QMul(s.base_score, s.risk_multiplier)
            diff == QSub(s.total_score, prod)
        IN  /\ QMul(s.base_score, Q(100))
                 = QAdd(QAdd(QMul(Q(25), args.volume), QMul(Q(25), args.frequency)),
                        QAdd(QMul(Q(20), args.temporal), QMul(Q(30), args.network)))
            /\ QLe(s.base_score, Q(100))
            /\ QAdd(QMul(s.risk_multiplier, Q(200)), args.risk) = Q(200)
            /\ QLe(<<1, 2>>, s.risk_multiplier) /\ QLe(s.risk_multiplier, Q(1))
            /\ (args.risk = Q(0) => s.risk_multiplier = Q(1))
            /\ (args.risk = Q(100) => s.risk_multiplier = <<1, 2>>)
            /\ 100 % s.total_score[2] = 0
            /\ QLe(diff, <<5, 1000>>) /\ QLe(<<-5, 1000>>, diff)

C9_Witness ==
    /\ ret.op = "aggregate"
    /\ args.risk = Q(100)
    /\ ret.score.risk_multiplier = <<1, 2>>
    /\ QLt(Q(0), ret.score.total_score)
    /\ QLt(ret.score.total_score, ret.score.base_score)

=============================================================================
